---- MODULE Spec2Model ----
(***************************************************************************)
(* Scene editor of the PPAT pre-processing tool: AppController             *)
(* (src/src/editor/controllers/app_controller.py) driving the pyvista      *)
(* render surface and the SceneNavigator tree                              *)
(* (src/src/editor/views/navigator.py).                                    *)
(*                                                                         *)
(* Python objects are modelled by reference: an Actor is a positive        *)
(* integer, the key of its record in `issued`; a manipulator               *)
(* (AffineWidget3D) is a positive integer, its key in `widgetActor`.  The  *)
(* reference 0 stands for None.  As in Python, an object lives as long as  *)
(* something refers to it, and a new object never shares the identity of   *)
(* a living one; the identity of a collected object may be used again.     *)
(* Python indices (idx, item._index) are kept 0-based as in the code.      *)
(*                                                                         *)
(* TLA+ strings are ASCII, so the Korean object names of the code are      *)
(* written by their glosses: "지면" is Ground, "건물 N" is "Body N",       *)
(* "바람" is Wind.                                                         *)
(*                                                                         *)
(* The wind viewer (src/src/vtk-viewer/main.py) is a program of its own;   *)
(* its state is the variable `viewer`, and it has its own specification,   *)
(* SpecViewer.                                                             *)
(***************************************************************************)
EXTENDS Integers, Sequences, FiniteSets, TLC

VARIABLES
    plotter,      \* AppController._plotter: "open" or None
    released,     \* number of QtInteractor.close() calls made on the render surface
    actors,       \* AppController._actors: sequence of Actor references
    widget,       \* AppController._widget: manipulator reference, 0 is None
    issued,       \* the living Actor objects returned by add_mesh: [name, bounds]
    surface,      \* Actor references currently on the render surface
    widgetActor,  \* the living manipulators: the Actor each is bound to
    live,         \* manipulators currently on the render surface
    rows,         \* QTreeWidget items of the navigator, in order
    selected,     \* position of the selected row, 0 when none
    closing,      \* SceneNavigator._closing
    delegate,     \* SceneNavigator._delegate
    lastOp,       \* what the last completed operation did (observation only)
    viewer        \* the wind viewer: bounds, line_source, state.start_x/start_y

vars == <<plotter, released, actors, widget, issued, surface, widgetActor,
          live, rows, selected, closing, delegate, lastOp, viewer>>

\* the program's own state: everything but the observation record
progVars == <<plotter, released, actors, widget, issued, surface, widgetActor,
              live, rows, selected, closing, delegate>>

----------------------------------------------------------------------------
(* Bounds of the model *)

\* objects in the registry, and so bodies in one imported mesh
MaxActors == 3
\* slider positions tried between the two ends of a slider
SliderTicks == 5

----------------------------------------------------------------------------
(* Values *)

None == "None"
Controller == "AppController"

Ground == "Ground"
Wind == "Wind"
\* variant of BodyName: the 0-based idx itself is used for the number
BodyName_ZeroBased(idx) == "Body " \o ToString(idx)

BodyName(idx) == "Body " \o ToString(idx + 1)

\* actor.bounds of the bodies a mesh may hold: (xmin, xmax, ymin, ymax, zmin, zmax);
\* bounding-box volumes 1000, 10 and 0 (a flat body)
Boxes ==
    { <<0, 10, 0, 10, 0, 10>>, <<0, 5, 0, 2, 0, 1>>, <<0, 3, 0, 2, 0, 0>> }

\* bounds of the streamline tubes: the (40, 30, 10) grid scaled by 10
StreamBounds == <<0, 390, 0, 290, 0, 90>>

RECURSIVE SeqsUpTo(_, _)
SeqsUpTo(S, n) ==
    IF n = 0 THEN { <<>> }
    ELSE LET shorter == SeqsUpTo(S, n - 1)
         IN shorter \cup { Append(s, x) : s \in { t \in shorter : Len(t) = n - 1 }, x \in S }

\* what pv.get_reader(filename).read() followed by split_bodies() may give:
\* no mesh at all (the read raises), or the ordered bodies of the mesh
Meshes == SeqsUpTo(Boxes, MaxActors)
Unreadable == [readable |-> FALSE, bodies |-> <<>>]
Files == {Unreadable} \cup { [readable |-> TRUE, bodies |-> m] : m \in Meshes }

Range(s) == { s[i] : i \in 1..Len(s) }

\* the identity of a new object: one that no living object has
NewRef(living) ==
    CHOOSE k \in 1..(Cardinality(living) + 1) :
        /\ k \notin living
        /\ \A j \in 1..(k - 1) : j \in living
Max(a, b) == IF a >= b THEN a ELSE b

\* vol = dx * dy * dz of actor.bounds
Volume(bounds) ==
    LET dx == bounds[2] - bounds[1]
        dy == bounds[4] - bounds[3]
        dz == bounds[6] - bounds[5]
    IN dx * dy * dz

----------------------------------------------------------------------------
(* The state as one record, threaded through the calls of an operation.    *)
(* calls, signals, peak and raised observe the operation in progress;      *)
(* lastCall holds the arguments of its last delegate call.                 *)

World ==
    [ plotter |-> plotter, released |-> released, actors |-> actors,
      widget |-> widget, issued |-> issued, surface |-> surface,
      widgetActor |-> widgetActor, live |-> live, rows |-> rows,
      selected |-> selected, closing |-> closing, delegate |-> delegate,
      calls |-> 0, signals |-> 0, peak |-> Cardinality(live), raised |-> FALSE,
      lastCall |-> <<>> ]

\* an exception leaves the operation
Raise(w) == [w EXCEPT !.raised = TRUE]

----------------------------------------------------------------------------
(* Render surface (pyvista plotter) services *)

\* AffineWidget3D.remove()
widget_remove(w, k) == [w EXCEPT !.live = @ \ {k}]

\* plotter.add_affine_transform_widget(actor)
add_affine_transform_widget(w, actor) ==
    LET k == NewRef(DOMAIN w.widgetActor)
    IN [w EXCEPT !.widgetActor = @ @@ (k :> actor),
                 !.live = @ \cup {k},
                 !.widget = k,
                 !.peak = Max(@, Cardinality(w.live \cup {k}))]

----------------------------------------------------------------------------
(* AppController *)

\* variant of on_actor_selected: the old manipulator is not removed
on_actor_selected_KeepOld(w, index, actor) ==
    IF w.plotter = None THEN Raise(w)
    ELSE add_affine_transform_widget(w, actor)

on_actor_selected(w, index, actor) ==
    LET w1 == IF w.widget # 0 THEN widget_remove(w, w.widget) ELSE w
    IN IF w1.plotter = None THEN Raise(w1)
       ELSE add_affine_transform_widget(w1, actor)

\* variant of close: no test of self._plotter before self._plotter.close()
close_NoGuard(w) ==
    IF w.plotter = None THEN Raise(w)
    ELSE [w EXCEPT !.released = @ + 1, !.plotter = None]

close(w) ==
    IF w.plotter # None
    THEN [w EXCEPT !.released = @ + 1, !.plotter = None]
    ELSE w

reset_camera(w) ==
    IF w.plotter = None THEN Raise(w) ELSE w

----------------------------------------------------------------------------
(* SceneNavigator *)

\* QTreeWidget.selectedItems()
selectedItems(w) ==
    IF w.selected = 0 THEN <<>> ELSE << w.rows[w.selected] >>

\* self._delegate.on_actor_selected(idx, actor)
delegate_call(w, idx, actor) ==
    on_actor_selected([w EXCEPT !.calls = @ + 1, !.lastCall = <<idx, actor>>],
                      idx, actor)

\* variant of on_item_selection_changed: the delegate is given the number
\* shown in the ID column, idx + 1, for the index
on_item_selection_changed_ShownId(w) ==
    IF w.closing THEN w
    ELSE LET items == selectedItems(w)
         IN IF items = <<>> THEN w
            ELSE IF w.delegate # None
                 THEN delegate_call(w, items[1].id, items[1].actor)
                 ELSE w

\* variant of on_item_selection_changed: an empty selection is reported to
\* the delegate as (-1, None)
on_item_selection_changed_NoEmptyCheck(w) ==
    IF w.closing THEN w
    ELSE LET items == selectedItems(w)
         IN IF items = <<>>
            THEN delegate_call(w, -1, 0)
            ELSE delegate_call(w, items[1].index, items[1].actor)

\* variant of on_item_selection_changed: neither _closing nor an empty
\* selection stops the report to the delegate
on_item_selection_changed_Unguarded(w) ==
    LET items == selectedItems(w)
    IN IF items = <<>>
       THEN delegate_call(w, -1, 0)
       ELSE delegate_call(w, items[1].index, items[1].actor)

on_item_selection_changed(w) ==
    IF w.closing THEN w
    ELSE LET items == selectedItems(w)
         IN IF items = <<>> THEN w
            ELSE IF w.delegate # None
                 THEN delegate_call(w, items[1].index, items[1].actor)
                 ELSE w

\* itemSelectionChanged, connected to on_item_selection_changed
emit_itemSelectionChanged(w) ==
    on_item_selection_changed([w EXCEPT !.signals = @ + 1])

\* QTreeWidget.clear(): the selection is cleared first, which emits
\* itemSelectionChanged when a row was selected, then the items are deleted
tree_clear(w) ==
    LET w1 == IF w.selected # 0
              THEN emit_itemSelectionChanged([w EXCEPT !.selected = 0])
              ELSE w
    IN [w1 EXCEPT !.rows = <<>>]

navigator_clear(w) ==
    LET w1 == [w EXCEPT !.closing = TRUE]
        w2 == tree_clear(w1)
    IN [w2 EXCEPT !.closing = FALSE]

load_actors(w, acts) ==
    LET w1 == tree_clear(w)
    IN [w1 EXCEPT !.rows =
            [ i \in 1..Len(acts) |->
                [ id |-> i, label |-> w1.issued[acts[i]].name,
                  index |-> i - 1, actor |-> acts[i] ] ] ]

----------------------------------------------------------------------------
(* AppController, continued *)

\* variant of clear: no early return on a closed plotter
clear_NoGuard(w) ==
    LET w1 == IF w.widget # 0
              THEN [widget_remove(w, w.widget) EXCEPT !.widget = 0]
              ELSE w
    IN IF w1.actors # <<>> /\ w1.plotter = None THEN Raise(w1)
       ELSE navigator_clear([w1 EXCEPT !.surface = @ \ Range(w1.actors),
                                      !.actors = <<>>])

\* variant of clear: the manipulator is left alone
clear_KeepWidget(w) ==
    IF w.plotter = None THEN w
    ELSE navigator_clear([w EXCEPT !.surface = @ \ Range(w.actors),
                                  !.actors = <<>>])

clear(w) ==
    IF w.plotter = None THEN w
    ELSE LET w1 == IF w.widget # 0
                   THEN [widget_remove(w, w.widget) EXCEPT !.widget = 0]
                   ELSE w
             w2 == [w1 EXCEPT !.surface = @ \ Range(w1.actors)]
             w3 == [w2 EXCEPT !.actors = <<>>]
         IN navigator_clear(w3)

\* the loop of import_stl over enumerate(bodies); largest 0 is None
RECURSIVE import_loop(_, _, _, _, _)
import_loop(w, bodies, idx, largest, max_vol) ==
    IF idx >= Len(bodies) THEN [w |-> w, largest |-> largest]
    ELSE IF w.plotter = None THEN [w |-> Raise(w), largest |-> largest]
    ELSE LET body == bodies[idx + 1]
             actor == NewRef(DOMAIN w.issued)
             fresh == [name |-> "", bounds |-> body]
             vol == Volume(fresh.bounds)
             bigger == vol > max_vol
             named == IF fresh.name = ""
                      THEN [fresh EXCEPT !.name = BodyName(idx)]
                      ELSE fresh
             w1 == [w EXCEPT !.issued = @ @@ (actor :> named),
                             !.surface = @ \cup {actor},
                             !.actors = Append(@, actor)]
         IN import_loop(w1, bodies, idx + 1,
                        IF bigger THEN actor ELSE largest,
                        IF bigger THEN vol ELSE max_vol)

\* variant of import_stl: the bodies other than Ground are numbered anew,
\* 1, 2, ... in split order
import_stl_Renumbered(w, file) ==
    IF ~file.readable THEN Raise(w)
    ELSE LET r == import_loop(w, file.bodies, 0, 0, 0)
         IN IF r.w.raised THEN r.w
            ELSE IF r.largest = 0 THEN Raise(r.w)
            ELSE LET base == Len(w.actors)
                     g == CHOOSE i \in 1..Len(file.bodies) : r.w.actors[base + i] = r.largest
                     names == [a \in DOMAIN r.w.issued |->
                                 IF \E i \in 1..Len(file.bodies) : r.w.actors[base + i] = a
                                 THEN LET i == CHOOSE i \in 1..Len(file.bodies) :
                                                  r.w.actors[base + i] = a
                                      IN IF i = g THEN Ground
                                         ELSE BodyName(IF i < g THEN i - 1 ELSE i - 2)
                                 ELSE r.w.issued[a].name]
                     w1 == [r.w EXCEPT !.issued =
                              [a \in DOMAIN r.w.issued |->
                                  [r.w.issued[a] EXCEPT !.name = names[a]]]]
                     w2 == load_actors(w1, w1.actors)
                 IN reset_camera(w2)

import_stl(w, file) ==
    IF ~file.readable THEN Raise(w)
    ELSE LET r == import_loop(w, file.bodies, 0, 0, 0)
         IN IF r.w.raised THEN r.w
            ELSE IF r.largest = 0 THEN Raise(r.w)
            ELSE LET w1 == [r.w EXCEPT !.issued[r.largest].name = Ground]
                     w2 == load_actors(w1, w1.actors)
                 IN reset_camera(w2)

generate_streamlines(w) ==
    IF w.plotter = None THEN Raise(w)
    ELSE LET actor == NewRef(DOMAIN w.issued)
             w1 == [w EXCEPT !.issued = @ @@ (actor :> [name |-> Wind, bounds |-> StreamBounds]),
                             !.surface = @ \cup {actor},
                             !.actors = Append(@, actor)]
         IN load_actors(w1, w1.actors)

----------------------------------------------------------------------------
(* The user's actions on the tree widget (single selection mode) *)

\* a click on row p selects it and deselects the prior one
tree_select(w, p) ==
    emit_itemSelectionChanged([w EXCEPT !.selected = p])

\* a control-click on the selected row leaves no row selected
tree_deselect(w) ==
    emit_itemSelectionChanged([w EXCEPT !.selected = 0])

----------------------------------------------------------------------------
(* Specification *)

\* the observation record: the operation, whether it raised, the delegate
\* calls and itemSelectionChanged signals made during it, the most
\* manipulators live at once during it, the bodies of its mesh, and from the
\* state it started in: the registry length, whether the plotter was open,
\* and the actor of the live manipulator (0 when none); lastCall is the
\* (index, actor) of the last delegate call made during it
NoOp == [op |-> "init", raised |-> FALSE, calls |-> 0, signals |-> 0,
         peak |-> 0, n |-> 0, base |-> 0, open |-> TRUE, prev |-> 0,
         lastCall |-> <<>>]

\* garbage collection: the manipulators and the actors something refers to
LiveWidgets(w) == (w.live \cup {w.widget}) \ {0}
LiveActors(w) ==
    Range(w.actors) \cup w.surface
        \cup { w.rows[i].actor : i \in 1..Len(w.rows) }
        \cup { w.widgetActor[k] : k \in LiveWidgets(w) }
Restrict(f, S) == [x \in (DOMAIN f) \cap S |-> f[x]]

\* the wind viewer before its module is run: bounds = (0, 0, 0, 0, 0, 0),
\* line_source = None
NotStarted ==
    [ op |-> "none", bounds |-> <<0, 0, 0, 0, 0, 0>>, point1 |-> <<>>,
      point2 |-> <<>>, kx |-> 0, ky |-> 0, start_x |-> 0, start_y |-> 0 ]

EditorInit ==
    /\ plotter = "open"
    /\ released = 0
    /\ actors = <<>>
    /\ widget = 0
    /\ issued = << >>
    /\ surface = {}
    /\ widgetActor = <<>>
    /\ live = {}
    /\ rows = <<>>
    /\ selected = 0
    /\ closing = FALSE
    /\ delegate = Controller
    /\ lastOp = NoOp

Init ==
    /\ EditorInit
    /\ viewer = NotStarted

\* the operation `op` ran from the current state and ended in w;
\* n is the number of bodies of the mesh it was given
Commit(w, op, n) ==
    /\ plotter' = w.plotter
    /\ released' = w.released
    /\ actors' = w.actors
    /\ widget' = w.widget
    /\ issued' = Restrict(w.issued, LiveActors(w))
    /\ surface' = w.surface
    /\ widgetActor' = Restrict(w.widgetActor, LiveWidgets(w))
    /\ live' = w.live
    /\ rows' = w.rows
    /\ selected' = w.selected
    /\ closing' = w.closing
    /\ delegate' = w.delegate
    /\ lastOp' = [op |-> op, raised |-> w.raised, calls |-> w.calls,
                  signals |-> w.signals, peak |-> w.peak, n |-> n,
                  base |-> Len(actors), open |-> plotter # None,
                  prev |-> IF widget \in live THEN widgetActor[widget] ELSE 0,
                  lastCall |-> w.lastCall]
    /\ viewer' = viewer

Close ==
    /\ Commit(close(World), "close", 0)

ResetCamera ==
    /\ Commit(reset_camera(World), "reset_camera", 0)

Clear ==
    /\ Commit(clear(World), "clear", 0)

ImportStl ==
    \E file \in Files :
        /\ Len(actors) + Len(file.bodies) <= MaxActors
        /\ Commit(import_stl(World, file), "import_stl",
                  IF file.readable THEN Len(file.bodies) ELSE -1)

GenerateStreamlines ==
    /\ Len(actors) < MaxActors
    /\ Commit(generate_streamlines(World), "generate_streamlines", 0)

UserSelect ==
    \E p \in 1..Len(rows) :
        /\ p # selected
        /\ Commit(tree_select(World, p), "select", 0)

UserDeselect ==
    /\ selected # 0
    /\ Commit(tree_deselect(World), "deselect", 0)

Next ==
    \/ Close
    \/ ResetCamera
    \/ Clear
    \/ ImportStl
    \/ GenerateStreamlines
    \/ UserSelect
    \/ UserDeselect

Spec == Init /\ [][Next]_vars

----------------------------------------------------------------------------
(* The editor when every imported mesh has three disjoint bodies of         *)
(* bounding-box volumes 1000, 10 and 5, in any split order                  *)

ScenarioBoxes ==
    { <<0, 10, 0, 10, 0, 10>>, <<0, 5, 0, 2, 0, 1>>, <<0, 5, 0, 1, 0, 1>> }
ScenarioMeshes ==
    { m \in [1..Cardinality(ScenarioBoxes) -> ScenarioBoxes] :
        \A i, j \in DOMAIN m : i # j => m[i] # m[j] }

ImportScenario ==
    \E bodies \in ScenarioMeshes :
        /\ Len(actors) + Len(bodies) <= MaxActors
        /\ Commit(import_stl(World, [readable |-> TRUE, bodies |-> bodies]),
                  "import_stl", Len(bodies))

NextScenario ==
    \/ Close
    \/ ResetCamera
    \/ Clear
    \/ ImportScenario
    \/ GenerateStreamlines
    \/ UserSelect
    \/ UserDeselect

SpecScenario == Init /\ [][NextScenario]_vars

----------------------------------------------------------------------------
(* The wind viewer.  Lengths are whole numbers of 1/SliderSteps of a unit   *)
(* (the slider step 0.01), kx, ky, start_x and start_y whole numbers of     *)
(* slider steps, so that kx * (x_max - x_min) needs no division; the        *)
(* rounding of floating-point arithmetic is not modelled.                   *)

\* steps of a slider from min=0 to max=1 by step=0.01
SliderSteps == 100

\* the positions a slider is put at: its two ends and SliderTicks - 1
\* evenly spaced positions between them
SliderValues ==
    {0, SliderSteps} \cup { i * (SliderSteps \div SliderTicks) : i \in 1..(SliderTicks - 1) }

\* structured_grid.GetBounds() of fields centred on their centroid, and of a
\* flat one, in units: (xmin, xmax, ymin, ymax, zmin, zmax)
FieldBounds ==
    { <<-20, 20, -15, 15, -5, 5>>, <<-3, 3, -7, 7, -1, 1>>, <<-8, 8, -2, 2, 0, 0>> }

\* variant of update_line_source_points: the end point is put at bounds[4] too
update_line_source_points_FlatZ(v, kx, ky) ==
    LET x_min == v.bounds[1] * SliderSteps
        x_max == v.bounds[2] * SliderSteps
        cur_x == x_min + (kx * (x_max - x_min)) \div SliderSteps
        y_min == v.bounds[3] * SliderSteps
        y_max == v.bounds[4] * SliderSteps
        cur_y == y_min + (ky * (y_max - y_min)) \div SliderSteps
        start_point == <<cur_x, cur_y, v.bounds[5] * SliderSteps>>
        end_point == <<cur_x, cur_y, v.bounds[5] * SliderSteps>>
    IN [v EXCEPT !.point1 = start_point, !.point2 = end_point,
                 !.kx = kx, !.ky = ky]

update_line_source_points(v, kx, ky) ==
    LET x_min == v.bounds[1] * SliderSteps
        x_max == v.bounds[2] * SliderSteps
        cur_x == x_min + (kx * (x_max - x_min)) \div SliderSteps
        y_min == v.bounds[3] * SliderSteps
        y_max == v.bounds[4] * SliderSteps
        cur_y == y_min + (ky * (y_max - y_min)) \div SliderSteps
        start_point == <<cur_x, cur_y, v.bounds[5] * SliderSteps>>
        end_point == <<cur_x, cur_y, v.bounds[6] * SliderSteps>>
    IN [v EXCEPT !.point1 = start_point, !.point2 = end_point,
                 !.kx = kx, !.ky = ky]

\* create_pipeline(): bounds of the loaded grid, line at (0.5, 0); the
\* sliders were built before it with start_x = start_y = 0.0
create_pipeline(b) ==
    update_line_source_points(
        [NotStarted EXCEPT !.op = "create_pipeline", !.bounds = b],
        SliderSteps \div 2, 0)

\* variant of on_start_y_changed: x stays where create_pipeline put it
on_start_y_changed_StaleX(v) ==
    [update_line_source_points(v, SliderSteps \div 2, v.start_y) EXCEPT !.op = "start_y"]

on_start_x_changed(v) ==
    [update_line_source_points(v, v.start_x, v.start_y) EXCEPT !.op = "start_x"]

on_start_y_changed(v) ==
    [update_line_source_points(v, v.start_x, v.start_y) EXCEPT !.op = "start_y"]

ViewerInit ==
    /\ EditorInit
    /\ viewer \in { create_pipeline(b) : b \in FieldBounds }

\* the client sets state.start_x, which runs the handler of its change
StartXChanged ==
    /\ \E x \in SliderValues : viewer' = on_start_x_changed([viewer EXCEPT !.start_x = x])
    /\ UNCHANGED <<progVars, lastOp>>

StartYChanged ==
    /\ \E y \in SliderValues : viewer' = on_start_y_changed([viewer EXCEPT !.start_y = y])
    /\ UNCHANGED <<progVars, lastOp>>

NextViewer ==
    \/ StartXChanged
    \/ StartYChanged

SpecViewer == ViewerInit /\ [][NextViewer]_vars

----------------------------------------------------------------------------
(* Observations used by the properties *)

\* the registry objects the last operation added, in registry order
NewActors == SubSeq(actors, lastOp.base + 1, Len(actors))
GroundsIn(acts) == { i \in 1..Len(acts) : issued[acts[i]].name = Ground }

ImportedBodies == lastOp.op = "import_stl" /\ lastOp.n >= 1 /\ lastOp.open
ImportSucceeded == lastOp.op = "import_stl" /\ ~lastOp.raised

----------------------------------------------------------------------------
(* Properties *)

\* C1: every import, with the plotter open, of a mesh that splits into
\* N >= 1 bodies (zero-volume bodies included) adds exactly N objects to the
\* registry, exactly one of them named Ground, and the Ground object's
\* bounding-box volume is at least that of every other object of the import.
C1_ImportLabelsOneGround ==
    ImportedBodies =>
        /\ Len(NewActors) = lastOp.n
        /\ Cardinality(GroundsIn(NewActors)) = 1
        /\ \A g \in GroundsIn(NewActors) : \A i \in 1..Len(NewActors) :
               Volume(issued[NewActors[g]].bounds) >= Volume(issued[NewActors[i]].bounds)

\* C2: an import_stl that raises leaves the registry, the actors on the
\* render surface, the navigator rows and the manipulator as they were.
C2_FailedImportChangesNothing ==
    [][ (lastOp'.op = "import_stl" /\ lastOp'.raised)
            => UNCHANGED <<actors, surface, rows, widget, live>> ]_vars

\* C3: at most one manipulator is live on the render surface at any time,
\* also inside an operation (the old one is removed before a new one is
\* created); a manipulator only comes to be live by a selection, bound to
\* the object of the selected row, and its binding never changes, so the
\* live manipulator is bound to the most recently selected object.
C3_SingleManipulator ==
    /\ [](Cardinality(live) <= 1 /\ lastOp.peak <= 1)
    /\ [][ \A k \in live' :
              \/ k \in live /\ widgetActor'[k] = widgetActor[k]
              \/ /\ lastOp'.op = "select"
                 /\ k = widget'
                 /\ widget \notin live'
                 /\ widgetActor'[k] = rows'[selected'].actor ]_vars

\* a selection replaced the manipulator of another object
C3_Witness ==
    /\ lastOp.op = "select"
    /\ lastOp.prev # 0
    /\ live = {widget}
    /\ widgetActor[widget] = rows[selected].actor
    /\ widgetActor[widget] # lastOp.prev

\* C4: the controller's clear(), which runs SceneNavigator.clear(), makes no
\* call of the delegate's on_actor_selected, also when emptying the tree
\* fires itemSelectionChanged.
C4_ClearCallsNoDelegate ==
    lastOp.op = "clear" => lastOp.calls = 0

\* a clear() emptied a tree with a selected row: the signal fired
C4_Witness ==
    /\ lastOp.op = "clear"
    /\ lastOp.signals = 1
    /\ lastOp.calls = 0
    /\ rows = <<>>

\* C5: the operations that repopulate the navigator by load_actors
\* (import_stl, generate_streamlines) make no call of the delegate's
\* on_actor_selected, also when a row is selected.
C5_LoadActorsCallsNoDelegate ==
    lastOp.op \in {"import_stl", "generate_streamlines"} => lastOp.calls = 0

\* an import repopulated a tree with a selected row: the signal fired
C5_Witness ==
    /\ ImportSucceeded
    /\ lastOp.signals = 1
    /\ lastOp.calls = 0
    /\ Len(rows) = Len(actors)
    /\ selected = 0

\* C6: after clear() with the plotter open, the registry is empty, no actor
\* is left on the render surface, the navigator has no rows and no
\* manipulator is live or referenced.
C6_ClearEmptiesScene ==
    (lastOp.op = "clear" /\ lastOp.open) =>
        /\ actors = <<>>
        /\ surface = {}
        /\ rows = <<>>
        /\ live = {}
        /\ widget = 0

\* a clear() of a scene with objects and a live manipulator
C6_Witness ==
    /\ lastOp.op = "clear"
    /\ lastOp.open
    /\ lastOp.base >= 2
    /\ lastOp.prev # 0
    /\ actors = <<>>
    /\ live = {}

\* C7: after a successful import_stl the registry holds exactly the objects
\* of that import, the render surface holds exactly their actors, and no
\* manipulator bound to an earlier object is live.
C7_ImportReplacesScene ==
    ImportSucceeded =>
        /\ Len(actors) = lastOp.n
        /\ surface = Range(NewActors)
        /\ \A k \in live : widgetActor[k] \in Range(NewActors)

\* C8: the registry left by a successful import holds exactly one object
\* named Ground.
C8_OneGroundInScene ==
    (ImportSucceeded /\ actors # <<>>) => Cardinality(GroundsIn(actors)) = 1

\* C9: close() never raises; the first call releases the render surface
\* once and drops the plotter, a later call changes nothing.
C9_CloseIdempotent ==
    [][ lastOp'.op = "close" =>
          /\ ~lastOp'.raised
          /\ plotter' = None
          /\ released' = 1
          /\ plotter # None => released = 0
          /\ plotter = None => UNCHANGED progVars ]_vars

\* a second close()
C9_Witness ==
    /\ lastOp.op = "close"
    /\ ~lastOp.open
    /\ ~lastOp.raised
    /\ released = 1
    /\ plotter = None

\* C10: after close(), clear, reset_camera, import_stl, generate_streamlines
\* and on_actor_selected (reached by a selection) each either raise or change
\* nothing, and all leave the registry, the navigator rows and the
\* manipulator reference as they were.
C10_ClosedControllerIsInert ==
    [][ (plotter = None /\ lastOp'.op \in
            {"clear", "reset_camera", "import_stl", "generate_streamlines", "select"})
          => /\ UNCHANGED <<actors, rows, widget>>
             /\ lastOp'.raised \/ UNCHANGED progVars ]_vars

\* a selection after close(), with objects in the registry and a manipulator
C10_Witness ==
    /\ lastOp.op = "select"
    /\ ~lastOp.open
    /\ lastOp.raised
    /\ actors # <<>>
    /\ widget # 0

\* the position in a sequence of bounds of the first one of the largest volume
FirstLargest(bs) ==
    CHOOSE i \in 1..Len(bs) :
        /\ \A j \in 1..Len(bs) : Volume(bs[j]) <= Volume(bs[i])
        /\ \A j \in 1..(i - 1) : Volume(bs[j]) < Volume(bs[i])
NewBounds == [i \in 1..Len(NewActors) |-> issued[NewActors[i]].bounds]
NewLabels == [i \in 1..Len(NewActors) |-> issued[NewActors[i]].name]
\* the label the code's "Body N" scheme gives the body at split position i
PositionLabel(i) ==
    CASE i = 1 -> "Body 1" [] i = 2 -> "Body 2" [] i = 3 -> "Body 3"
      [] i = 4 -> "Body 4" [] OTHER -> "Body 5"

\* C11: in an import with the plotter open, every body but the first one of
\* the largest volume is labeled "Body N" with N its 1-indexed position in
\* the split order; the position number of the Ground body is skipped.
C11_BodiesNumberedByPosition ==
    ImportedBodies =>
        /\ Len(NewActors) = lastOp.n
        /\ \A i \in 1..Len(NewActors) :
               i # FirstLargest(NewBounds) => NewLabels[i] = PositionLabel(i)

\* an import whose Ground body is not the last: its number is skipped
C11_Witness ==
    /\ ImportSucceeded
    /\ lastOp.open
    /\ lastOp.n = 3
    /\ lastOp.base = 0
    /\ NewLabels = <<"Body 1", Ground, "Body 3">>

\* C14: when two or more bodies of an import (plotter open) share the largest
\* bounding-box volume, the first of them in split order is named Ground.
C14_TieGoesToFirst ==
    (ImportedBodies /\ Len(NewActors) = lastOp.n
        /\ \E i, j \in 1..Len(NewActors) :
              /\ i # j
              /\ Volume(NewBounds[i]) = Volume(NewBounds[j])
              /\ \A k \in 1..Len(NewActors) : Volume(NewBounds[k]) <= Volume(NewBounds[i]))
      => GroundsIn(NewActors) = {FirstLargest(NewBounds)}

\* C15: after import_stl, generate_streamlines or clear has returned, the
\* navigator has one row per registry object, in registry order: row i has
\* index i (0-based) and refers to the i-th registry object.
C15_RowsMirrorRegistry ==
    (lastOp.op \in {"import_stl", "generate_streamlines", "clear"} /\ ~lastOp.raised)
      => /\ Len(rows) = Len(actors)
         /\ \A i \in 1..Len(rows) :
               rows[i].index = i - 1 /\ rows[i].actor = actors[i]

\* C16: a selection change made by the user that leaves a row selected calls
\* the delegate's on_actor_selected exactly once, with the index and the
\* actor stored on that row; one that leaves no row selected calls nothing.
C16_SelectionNotifiesOnce ==
    /\ lastOp.op = "select" =>
          /\ selected # 0
          /\ lastOp.signals = 1
          /\ lastOp.calls = 1
          /\ lastOp.lastCall = <<rows[selected].index, rows[selected].actor>>
    /\ lastOp.op = "deselect" =>
          /\ selected = 0
          /\ lastOp.signals = 1
          /\ lastOp.calls = 0

\* the user selected the second row
C16_Witness ==
    /\ lastOp.op = "select"
    /\ lastOp.open
    /\ selected = 2
    /\ lastOp.lastCall = <<1, rows[2].actor>>
    /\ widgetActor[widget] = rows[2].actor

\* C18: while the plotter is open, a live manipulator is the one the
\* controller refers to and is bound to an object that is in the registry
\* and on the render surface.
C18_ManipulatorOnLiveObject ==
    plotter # None =>
        \A k \in live :
            /\ k = widget
            /\ widgetActor[k] \in Range(actors)
            /\ widgetActor[k] \in surface

\* a manipulator that stayed live over a later import
C18_Witness ==
    /\ plotter # None
    /\ ImportSucceeded
    /\ lastOp.prev # 0
    /\ live = {widget}
    /\ widgetActor[widget] = lastOp.prev
    /\ lastOp.prev \in Range(actors)

\* the labels of an import's objects other than the one at position g, in order
LabelsBut(g) ==
    [i \in 1..(Len(NewLabels) - 1) |-> IF i < g THEN NewLabels[i] ELSE NewLabels[i + 1]]
\* the position in the import of the body of bounding-box volume v
PositionOfVolume(v) == CHOOSE i \in 1..Len(NewBounds) : Volume(NewBounds[i]) = v

\* C12, as claimed: an import of three bodies of volumes 1000, 10 and 5, in
\* any split order, gives 3 objects, the volume-1000 one named Ground and
\* the other two named "Body 1" and "Body 2" in split order.
C12_ScenarioBody1Body2 ==
    ImportedBodies =>
        /\ Len(NewActors) = 3
        /\ NewLabels[PositionOfVolume(1000)] = Ground
        /\ LabelsBut(PositionOfVolume(1000)) = <<"Body 1", "Body 2">>

\* C12, amended: the import gives 3 objects, the volume-1000 one named
\* Ground, and the other two keep the numbers of their split positions:
\* "Body 2", "Body 3" when the volume-1000 body is first, "Body 1", "Body 3"
\* when it is second, "Body 1", "Body 2" when it is last.
C12_ScenarioPositionLabels ==
    ImportedBodies =>
        /\ Len(NewActors) = 3
        /\ NewLabels[PositionOfVolume(1000)] = Ground
        /\ PositionOfVolume(1000) = 1 => LabelsBut(1) = <<"Body 2", "Body 3">>
        /\ PositionOfVolume(1000) = 2 => LabelsBut(2) = <<"Body 1", "Body 3">>
        /\ PositionOfVolume(1000) = 3 => LabelsBut(3) = <<"Body 1", "Body 2">>

\* the scenario with the bodies split in the order 10, 1000, 5
C12_Witness ==
    /\ ImportSucceeded
    /\ lastOp.open
    /\ Len(NewActors) = 3
    /\ [i \in 1..3 |-> Volume(NewBounds[i])] = <<10, 1000, 5>>
    /\ NewLabels = <<"Body 1", Ground, "Body 3">>

\* the seed line of the viewer and the bounds of its field
P1 == viewer.point1
P2 == viewer.point2
XMin == viewer.bounds[1] * SliderSteps
XMax == viewer.bounds[2] * SliderSteps
YMin == viewer.bounds[3] * SliderSteps
YMax == viewer.bounds[4] * SliderSteps
ZMin == viewer.bounds[5] * SliderSteps
ZMax == viewer.bounds[6] * SliderSteps

\* C13: after update_line_source_points(kx, ky) with kx, ky in [0, 1] the two
\* end points of the seed line have the same (x, y), with
\* x = xmin + kx * (xmax - xmin) and y = ymin + ky * (ymax - ymin), and
\* z = zmin and z = zmax; kx = 0, ky = 0 puts the line at (xmin, ymin),
\* kx = 1, ky = 1 at (xmax, ymax).
C13_SeedLineMapping ==
    /\ P1[1] = P2[1]
    /\ P1[2] = P2[2]
    /\ P1[3] = ZMin
    /\ P2[3] = ZMax
    /\ SliderSteps * (P1[1] - XMin) = viewer.kx * (XMax - XMin)
    /\ SliderSteps * (P1[2] - YMin) = viewer.ky * (YMax - YMin)
    /\ viewer.kx = 0 => P1[1] = XMin
    /\ viewer.ky = 0 => P1[2] = YMin
    /\ viewer.kx = SliderSteps => P1[1] = XMax
    /\ viewer.ky = SliderSteps => P1[2] = YMax

\* the line at (xmax, ymax) of a field with zmin < zmax
C13_Witness ==
    /\ viewer.op = "start_y"
    /\ viewer.kx = SliderSteps
    /\ viewer.ky = SliderSteps
    /\ P1 = <<XMax, YMax, ZMin>>
    /\ P2 = <<XMax, YMax, ZMax>>
    /\ ZMin < ZMax
    /\ XMin < XMax

\* C17: after every change of start_x or start_y the seed line is at the
\* mapping of the current (start_x, start_y) onto the field bounds.
C17_SeedLineFollowsSliders ==
    viewer.op \in {"start_x", "start_y"} =>
        /\ P1 = << XMin + (viewer.start_x * (XMax - XMin)) \div SliderSteps,
                   YMin + (viewer.start_y * (YMax - YMin)) \div SliderSteps, ZMin >>
        /\ P2 = << XMin + (viewer.start_x * (XMax - XMin)) \div SliderSteps,
                   YMin + (viewer.start_y * (YMax - YMin)) \div SliderSteps, ZMax >>

\* start_y changed after start_x had been moved off both 0 and 0.5
C17_Witness ==
    /\ viewer.op = "start_y"
    /\ viewer.start_x \notin {0, SliderSteps \div 2}
    /\ viewer.start_y # 0
    /\ viewer.kx = viewer.start_x
    /\ P1[1] = XMin + (viewer.start_x * (XMax - XMin)) \div SliderSteps
    /\ XMin < XMax

====
